---- MODULE Spec2Model ----
(***************************************************************************)
(* Model of the terramate evaluation core:                                 *)
(*   - eval.Object, the path-addressable value tree (package eval),        *)
(*   - errors.List, the flattening error list (package errors),            *)
(*   - tf.ParseModuleBlocks, a pass that accumulates into an errors.List.  *)
(* Objects live in a heap of records addressed by index, because the Go    *)
(* code stores *Object pointers: two keys may hold the same pointer.       *)
(***************************************************************************)
EXTENDS Integers, Sequences, FiniteSets, TLC

(* ------------------------------ bounds --------------------------------- *)
MaxOps == 2
MaxObjs == 3
MaxPathLen == 3
MaxDepth == 1
MaxErrs == 4
MaxArgLen == 2
MaxBlocks == 2

Keys == {"a", "b"}
Origins == {"/s1", "/s2"}
Strings == {"x", "y"}

(* ------------------------- raw cty values ------------------------------ *)
\* A cty.Value: its type tag, its payload and the set of marks it carries.
StringVal(s) == [ty |-> "string", s |-> s, attrs |-> [k \in {} |-> 0], marks |-> {}]
ObjectVal(attrs) == [ty |-> "object", s |-> "", attrs |-> attrs, marks |-> {}]
IsObjectType(v) == v.ty = "object"
\* cty.Value.Mark adds one mark to the value's own (top-level) mark set.
Mark(v, m) == [v EXCEPT !.marks = @ \cup {m}]
\* cty.Value.Unmark removes every top-level mark.
Unmark(v) == [v EXCEPT !.marks = {}]

(* ------------------------------ values --------------------------------- *)
Nil == [kind |-> "nil", origin |-> "", val |-> 0, ref |-> 0]
ErrNil == "nil"
ErrCannotExtendObject == "cannot extend object"
ErrPanic == "panic"

NewCtyValue(val, origin) ==
    [kind |-> "cty", origin |-> origin, val |-> Mark(val, origin), ref |-> 0]
\* Raw as a bug would write it: the marked value is returned as stored.
RawKeepMarks(v) == v.val
Raw(v) == Unmark(v.val)
ObjRef(id) == [kind |-> "obj", origin |-> "", val |-> 0, ref |-> id]
IsObject(v) == v.kind = "obj"
Origin(h, v) == IF IsObject(v) THEN h[v.ref].origin ELSE v.origin

(* ------------------------------- heap ---------------------------------- *)
EmptyKeys == [k \in {} |-> Nil]
Put(f, k, v) == [x \in (DOMAIN f) \cup {k} |-> IF x = k THEN v ELSE f[x]]
Remove(f, k) == [x \in (DOMAIN f) \ {k} |-> f[x]]
Root == 1

\* NewObject allocates the next heap cell; the new object's id is Len(h) + 1.
NewObject(h, origin) == Append(h, [origin |-> origin, Keys |-> EmptyKeys])

Set(h, obj, key, value) == [h EXCEPT ![obj].Keys = Put(@, key, value)]

RECURSIVE GetKeyPath(_, _, _)
GetKeyPath(h, obj, path) ==
    LET key == Head(path)
        next == Tail(path)
    IN  IF key \notin DOMAIN h[obj].Keys THEN [v |-> Nil, ok |-> FALSE]
        ELSE LET v == h[obj].Keys[key]
             IN  IF Len(next) = 0 THEN [v |-> v, ok |-> TRUE]
                 ELSE IF ~IsObject(v) THEN [v |-> Nil, ok |-> FALSE]
                 ELSE GetKeyPath(h, v.ref, next)

\* SetAt as a bug would write it: the terminal key is set on the receiver
\* of the call instead of on the object the loop descended to.
SetAtShallow(h, obj, path, value) ==
    [heap |-> Set(h, obj, path[Len(path)], value), err |-> ErrNil]

\* SetAt as a bug would write it: an intermediate that is not an object is
\* replaced by a new object instead of being reported.
RECURSIVE SetAtReplace(_, _, _, _)
SetAtReplace(h, obj, path, value) ==
    IF Len(path) > 1 THEN
        LET key == Head(path)
            ok == key \in DOMAIN h[obj].Keys /\ IsObject(h[obj].Keys[key])
            h1 == IF ok THEN h
                  ELSE Set(NewObject(h, Origin(h, value)), obj, key,
                           ObjRef(Len(h) + 1))
        IN  SetAtReplace(h1, h1[obj].Keys[key].ref, Tail(path), value)
    ELSE [heap |-> Set(h, obj, Head(path), value), err |-> ErrNil]

\* SetAt as a bug would write it: a missing intermediate is filled with the
\* receiver itself instead of a new object.
RECURSIVE SetAtReuse(_, _, _, _)
SetAtReuse(h, obj, path, value) ==
    IF Len(path) > 1 THEN
        LET key == Head(path)
            ok == key \in DOMAIN h[obj].Keys
            h1 == IF ok THEN h ELSE Set(h, obj, key, ObjRef(obj))
            subobj == h1[obj].Keys[key]
        IN  IF ~IsObject(subobj)
            THEN [heap |-> h1, err |-> ErrCannotExtendObject]
            ELSE SetAtReuse(h1, subobj.ref, Tail(path), value)
    ELSE [heap |-> Set(h, obj, Head(path), value), err |-> ErrNil]

RECURSIVE SetAt(_, _, _, _)
SetAt(h, obj, path, value) ==
    IF Len(path) > 1 THEN
        LET key == Head(path)
            ok == key \in DOMAIN h[obj].Keys
            h1 == IF ok THEN h
                  ELSE Set(NewObject(h, Origin(h, value)), obj, key,
                           ObjRef(Len(h) + 1))
            subobj == h1[obj].Keys[key]
        IN  IF ~IsObject(subobj)
            THEN [heap |-> h1, err |-> ErrCannotExtendObject]
            ELSE SetAt(h1, subobj.ref, Tail(path), value)
    ELSE [heap |-> Set(h, obj, Head(path), value), err |-> ErrNil]

\* DeleteAt as a bug would write it: a missing intermediate is reported
\* like a wrong-shaped one.
RECURSIVE DeleteAtStrict(_, _, _)
DeleteAtStrict(h, obj, path) ==
    IF Len(path) > 1 THEN
        LET key == Head(path)
        IN  IF key \notin DOMAIN h[obj].Keys
            THEN [heap |-> h, err |-> ErrCannotExtendObject]
            ELSE LET subobj == h[obj].Keys[key]
                 IN  IF ~IsObject(subobj)
                     THEN [heap |-> h, err |-> ErrCannotExtendObject]
                     ELSE DeleteAtStrict(h, subobj.ref, Tail(path))
    ELSE [heap |-> [h EXCEPT ![obj].Keys = Remove(@, Head(path))],
          err |-> ErrNil]

\* DeleteAt as a bug would write it: the terminal key is deleted from the
\* receiver of the call instead of from the object the loop descended to.
DeleteAtShallow(h, obj, path) ==
    [heap |-> [h EXCEPT ![obj].Keys = Remove(@, path[Len(path)])],
     err |-> ErrNil]

RECURSIVE DeleteAt(_, _, _)
DeleteAt(h, obj, path) ==
    IF Len(path) > 1 THEN
        LET key == Head(path)
        IN  IF key \notin DOMAIN h[obj].Keys
            THEN [heap |-> h, err |-> ErrNil]
            ELSE LET subobj == h[obj].Keys[key]
                 IN  IF ~IsObject(subobj)
                     THEN [heap |-> h, err |-> ErrCannotExtendObject]
                     ELSE DeleteAt(h, subobj.ref, Tail(path))
    ELSE [heap |-> [h EXCEPT ![obj].Keys = Remove(@, Head(path))],
          err |-> ErrNil]

\* SetFrom as a bug would write it: an existing key is overwritten.
RECURSIVE SetFromOverwrite(_, _, _, _)
SetFromOverwrite(h, obj, order, values) ==
    IF order = << >> THEN [heap |-> h, err |-> ErrNil]
    ELSE SetFromOverwrite(Set(h, obj, Head(order), values[Head(order)]),
                          obj, Tail(order), values)

\* SetFrom visits the map's keys in the order `order` (Go leaves the
\* iteration order of a map unspecified; the caller of this operator
\* ranges over every order).
RECURSIVE SetFrom(_, _, _, _)
SetFrom(h, obj, order, values) ==
    IF order = << >> THEN [heap |-> h, err |-> ErrNil]
    ELSE LET k == Head(order)
         IN  IF k \in DOMAIN h[obj].Keys
             THEN [heap |-> h, err |-> ErrPanic]
             ELSE SetFrom(Set(h, obj, k, values[k]), obj, Tail(order), values)

(* ------------------- raw values <-> value tree ------------------------- *)
\* cty.Value.AsValueMap of an object-typed value: its attributes.
CtyAsValueMap(v) == v.attrs

\* SetFromCtyValues; `todo` is the part of the map the range loop has not
\* visited yet (every key is visited once and the keys are distinct, so the
\* resulting tree does not depend on the order of the visit).
RECURSIVE SetFromCtyValuesLoop(_, _, _, _, _)
SetFromCtyValuesLoop(h, obj, values, origin, todo) ==
    IF todo = {} THEN h
    ELSE LET k == CHOOSE x \in todo : TRUE
             v == values[k]
         IN  IF IsObjectType(v)
             THEN LET subtree == Len(h) + 1
                      h1 == NewObject(h, origin)
                      h2 == SetFromCtyValuesLoop(h1, subtree, CtyAsValueMap(v),
                                origin, DOMAIN CtyAsValueMap(v))
                  IN  SetFromCtyValuesLoop(Set(h2, obj, k, ObjRef(subtree)),
                                obj, values, origin, todo \ {k})
             ELSE SetFromCtyValuesLoop(Set(h, obj, k, NewCtyValue(v, origin)),
                                obj, values, origin, todo \ {k})

SetFromCtyValues(h, obj, values, origin) ==
    SetFromCtyValuesLoop(h, obj, values, origin, DOMAIN values)

RECURSIVE AsValueMap(_, _)
AsValueMap(h, obj) ==
    [k \in DOMAIN h[obj].Keys |->
        LET v == h[obj].Keys[k]
        IN  IF IsObject(v) THEN ObjectVal(AsValueMap(h, v.ref)) ELSE Raw(v)]

\* NewValue returns the heap after construction and the Value built.
NewValue(h, val, origin) ==
    IF IsObjectType(val)
    THEN [heap |-> SetFromCtyValues(NewObject(h, origin), Len(h) + 1,
                                    CtyAsValueMap(val), origin),
          value |-> ObjRef(Len(h) + 1)]
    ELSE [heap |-> h, value |-> NewCtyValue(val, origin)]

\* Every object-typed raw value over the keys `keys` with string leaves
\* `strs`, nested at most d levels below the top.
RECURSIVE RawObjectsOver(_, _, _)
RawObjectsOver(keys, strs, d) ==
    LET elems == {StringVal(s) : s \in strs} \cup
                 (IF d = 0 THEN {} ELSE RawObjectsOver(keys, strs, d - 1))
    IN  {ObjectVal(f) : f \in UNION {[D -> elems] : D \in SUBSET keys}}

(* --------------------------- errors.List ------------------------------- *)
\* An error value: nil, an atomic error, a *List, or hcl.Diagnostics.
NilErr == [t |-> "nil", msg |-> "", rng |-> "", elems |-> << >>]
E(msg, rng) == [t |-> "error", msg |-> msg, rng |-> rng, elems |-> << >>]
Diagnostic(detail, subject) ==
    [t |-> "diag", msg |-> detail, rng |-> subject, elems |-> << >>]
Diagnostics(entries) == [t |-> "diags", msg |-> "", rng |-> "", elems |-> entries]
AsList(errs) == [t |-> "list", msg |-> "", rng |-> "", elems |-> errs]

RECURSIVE EachDiag(_)
EachDiag(entries) ==
    IF entries = << >> THEN << >>
    ELSE <<E(Head(entries).msg, Head(entries).rng)>> \o EachDiag(Tail(entries))

\* Append as a bug would write it: nil is stored like any other error.
AppendKeepNil(errs, x) ==
    IF x.t = "list" THEN errs \o x.elems
    ELSE IF x.t = "diags" THEN errs \o EachDiag(x.elems)
    ELSE Append(errs, x)

\* Append as a bug would write it: another list is stored as one entry.
AppendNested(errs, x) ==
    IF x.t = "nil" THEN errs
    ELSE IF x.t = "diags" THEN errs \o EachDiag(x.elems)
    ELSE Append(errs, x)

\* List.Append of one argument to the list whose elements are errs.
ListAppend(errs, x) ==
    IF x.t = "nil" THEN errs
    ELSE IF x.t = "list" THEN errs \o x.elems
    ELSE IF x.t = "diags" THEN errs \o EachDiag(x.elems)
    ELSE Append(errs, x)

\* L(args...): an empty list to which each argument is appended in turn.
RECURSIVE LFrom(_, _)
LFrom(errs, args) ==
    IF args = << >> THEN errs
    ELSE LFrom(ListAppend(errs, Head(args)), Tail(args))
L(args) == LFrom(<< >>, args)

Errors(errs) == errs
AsError(errs) == IF Len(errs) = 0 THEN NilErr ELSE AsList(errs)

\* A string is modelled as the sequence of its pieces; "" is << >>.
RECURSIVE Joined(_, _)
Joined(errs, sep) ==
    IF errs = << >> THEN << >>
    ELSE IF Len(errs) = 1 THEN <<errs[1].msg>>
    ELSE <<errs[1].msg, sep>> \o Joined(Tail(errs), sep)
ListError(errs) == IF Len(errs) = 0 THEN << >> ELSE Joined(errs, "\n")
RECURSIVE Bullets(_)
Bullets(errs) ==
    IF errs = << >> THEN << >>
    ELSE <<"\n\t-", errs[1].msg>> \o Bullets(Tail(errs))
Detailed(errs) ==
    IF Len(errs) = 0 THEN << >> ELSE <<"error list:">> \o Bullets(errs)

(* ------------------------ tf.ParseModuleBlocks ------------------------- *)
ErrHCLSyntax == "HCL syntax error"
ErrTerraformSchema == "terraform schema error"

\* A block of the parsed file: its type, its number of labels and what its
\* "source" attribute is: "none" (no such attribute), "string", "notstring"
\* (a value of another type) or "evalerr" (the expression has diagnostics).
Block(type, labels, source) == [type |-> type, labels |-> labels, source |-> source]

findStringAttr(block) ==
    IF block.source = "none" THEN [s |-> "", ok |-> FALSE, err |-> NilErr]
    ELSE IF block.source = "evalerr"
    THEN [s |-> "", ok |-> FALSE, err |-> E("diags", "attr")]
    ELSE IF block.source = "notstring"
    THEN [s |-> "", ok |-> FALSE, err |-> E("attribute is not a string", "attr")]
    ELSE [s |-> "src", ok |-> TRUE, err |-> NilErr]

\* The body of the loop over body.Blocks: acc holds errs and modules.
ParseBlock(acc, block) ==
    IF block.type # "module" THEN acc
    ELSE LET e1 == IF block.labels = 1 THEN acc.errs
                   ELSE ListAppend(acc.errs,
                            E(ErrTerraformSchema, "must have 1 label"))
             f == findStringAttr(block)
             e2 == IF f.err # NilErr
                   THEN ListAppend(e1, E(ErrTerraformSchema, "looking for source"))
                   ELSE e1
             e3 == IF ~f.ok
                   THEN ListAppend(e2, E(ErrTerraformSchema, "must have a source"))
                   ELSE e2
         IN  [errs |-> e3, modules |-> Append(acc.modules, f.s)]

RECURSIVE ParseBlocks(_, _)
ParseBlocks(acc, blocks) ==
    IF blocks = << >> THEN acc
    ELSE ParseBlocks(ParseBlock(acc, Head(blocks)), Tail(blocks))

\* ParseModuleBlocks as a bug would write it: the accumulated list is not
\* consulted and the modules are returned.
ParseModuleBlocksIgnoreErrs(statOk, syntaxOk, blocks) ==
    LET acc == ParseBlocks([errs |-> L(<< >>), modules |-> << >>], blocks)
    IN  [modules |-> acc.modules, err |-> NilErr, errs |-> acc.errs]

\* ParseModuleBlocks returns (modules, err); errs is the list it had
\* accumulated when it returned.
ParseModuleBlocks(statOk, syntaxOk, blocks) ==
    IF ~statOk
    THEN [modules |-> << >>, err |-> E("stat failed", ""), errs |-> << >>]
    ELSE IF ~syntaxOk
    THEN [modules |-> << >>, err |-> E(ErrHCLSyntax, "diags"), errs |-> << >>]
    ELSE LET acc == ParseBlocks([errs |-> L(<< >>), modules |-> << >>], blocks)
         IN  IF AsError(acc.errs) # NilErr
             THEN [modules |-> << >>, err |-> AsError(acc.errs), errs |-> acc.errs]
             ELSE [modules |-> acc.modules, err |-> NilErr, errs |-> acc.errs]

(* ------------------------------ state ---------------------------------- *)
VARIABLES
    heap,      \* the objects allocated so far; heap[Root] is the first one
    pre,       \* the heap as it was before the last call
    last,      \* the last call: operation, arguments and what it returned
    nops,      \* number of calls made
    aliased,   \* a caller passed in an Object that was already in a tree
    callers,   \* "any": callers pass any *Object; "owning": only detached ones
    held,      \* the Objects the caller has a pointer to
    rtIn,      \* round trip: the raw value handed to NewValue
    rtOrigin,  \* round trip: the origin handed to NewValue
    rtVal,     \* round trip: the Value NewValue returned
    rtOut,     \* round trip: the map AsValueMap returned
    rtPc,      \* round trip: position
    errs,      \* the elements of the errors.List under observation
    wantErrs,  \* what the calls made so far should have put into errs
    sawError,  \* some call handed the list at least one atomic error
    lcall      \* the last call on the list, or the last pass

treeVars == <<heap, pre, last, nops, aliased, callers, held>>
rtVars == <<rtIn, rtOrigin, rtVal, rtOut, rtPc>>
diagVars == <<errs, wantErrs, sawError, lcall>>
otherVars == <<rtVars, diagVars>>
vars == <<heap, pre, last, nops, aliased, callers, held, rtIn, rtOrigin, rtVal, rtOut,
          rtPc, errs, wantErrs, sawError, lcall>>

Call(op, recv, path, value, values, err, delRun) ==
    [op |-> op, recv |-> recv, path |-> path, value |-> value,
     values |-> values, err |-> err, delRun |-> delRun]

(* ------------------------------ inputs --------------------------------- *)
Paths == UNION {[1..n -> Keys] : n \in 1..MaxPathLen}
Scalars == {NewCtyValue(StringVal("x"), "/s1"), NewCtyValue(StringVal("y"), "/s2")}
TreeRawMaps == {CtyAsValueMap(r) : r \in RawObjectsOver(Keys, {"x"}, 0)
                                       \cup RawObjectsOver({"a"}, {"x"}, 1)}
Orders(D) == {o \in UNION {[1..n -> D] : n \in {Cardinality(D)}} :
                 \A i, j \in DOMAIN o : i # j => o[i] # o[j]}

Parents(h, id) ==
    {pk \in (1..Len(h)) \X Keys :
        pk[2] \in DOMAIN h[pk[1]].Keys /\ h[pk[1]].Keys[pk[2]] = ObjRef(id)}
Children(h, id) ==
    {c \in 1..Len(h) : \E k \in DOMAIN h[id].Keys : h[id].Keys[k] = ObjRef(c)}
RECURSIVE Descendants(_, _, _)
Descendants(h, S, n) ==
    IF n = 0 THEN S
    ELSE Descendants(h, S \cup UNION {Children(h, c) : c \in S}, n - 1)

\* The object id is already the child of some key, or it is the receiver
\* recv or holds recv somewhere below it.
Attached(h, id, recv) ==
    \/ Parents(h, id) # {}
    \/ recv \in Descendants(h, {id}, Len(h))
PassesAttached(h, value, recv) == IsObject(value) /\ Attached(h, value.ref, recv)
PassesTwice(values) ==
    \E i, j \in DOMAIN values : i # j /\ IsObject(values[i]) /\ values[i] = values[j]

\* The Values a caller may pass to a method of recv: a scalar, or a pointer
\* to an Object it holds.
ArgValues(h, recv) ==
    Scalars \cup {ObjRef(i) : i \in {j \in held :
                                    callers = "any" \/ ~Attached(h, j, recv)}}
Mappings(h, recv) ==
    {m \in UNION {[D -> ArgValues(h, recv)] : D \in SUBSET Keys} :
        callers = "any" \/ ~PassesTwice(m)}

InitRT0 ==
    /\ rtIn = ObjectVal(EmptyKeys) /\ rtOrigin = "" /\ rtVal = Nil
    /\ rtOut = EmptyKeys /\ rtPc = "idle"

NoInput == [statOk |-> TRUE, syntaxOk |-> TRUE, blocks |-> << >>]
NoOutput == [modules |-> << >>, err |-> NilErr, errs |-> << >>]
ListCall(op, args, before, input, out) ==
    [op |-> op, args |-> args, pre |-> before, input |-> input, out |-> out]

InitDiag0 ==
    /\ errs = << >> /\ wantErrs = << >> /\ sawError = FALSE
    /\ lcall = ListCall("none", << >>, << >>, NoInput, NoOutput)

InitTree ==
    /\ InitDiag0
    /\ \E o \in Origins : heap = NewObject(<< >>, o)
    /\ held = {Root}
    /\ pre = heap
    /\ last = Call("NewObject", Root, << >>, Nil, EmptyKeys, ErrNil, 0)
    /\ nops = 0
    /\ aliased = FALSE
    /\ InitRT0

Init == InitTree /\ callers = "any"
InitOwned == InitTree /\ callers = "owning"

(* ------------------------------ actions -------------------------------- *)
DoNewObject ==
    /\ nops < MaxOps /\ Len(heap) < MaxObjs
    /\ \E o \in Origins :
          /\ heap' = NewObject(heap, o)
          /\ last' = Call("NewObject", Root, << >>, Nil, EmptyKeys, ErrNil, 0)
    /\ held' = held \cup {Len(heap) + 1}
    /\ pre' = heap /\ nops' = nops + 1
    /\ UNCHANGED <<aliased, callers, otherVars>>

\* GetKeyPath changes nothing; an Object it returns is one more Object the
\* caller has a pointer to.
DoGetKeyPath ==
    /\ nops < MaxOps
    /\ \E recv \in held : \E path \in Paths :
          LET r == GetKeyPath(heap, recv, path)
          IN  /\ last' = Call("GetKeyPath", recv, path, r.v, EmptyKeys,
                               IF r.ok THEN ErrNil ELSE "not found", 0)
              /\ held' = IF r.ok /\ IsObject(r.v) THEN held \cup {r.v.ref}
                         ELSE held
    /\ pre' = heap /\ nops' = nops + 1
    /\ UNCHANGED <<heap, aliased, callers, otherVars>>

DoSet ==
    /\ nops < MaxOps
    /\ \E recv \in held : \E key \in Keys :
       \E value \in ArgValues(heap, recv) :
          /\ heap' = Set(heap, recv, key, value)
          /\ last' = Call("Set", recv, <<key>>, value, EmptyKeys, ErrNil, 0)
          /\ aliased' = (aliased \/ PassesAttached(heap, value, recv))
    /\ pre' = heap /\ nops' = nops + 1
    /\ UNCHANGED <<held, callers, otherVars>>

DoSetAt ==
    /\ nops < MaxOps
    /\ \E recv \in held : \E path \in Paths :
       \E value \in ArgValues(heap, recv) :
          LET r == SetAt(heap, recv, path, value)
          IN  /\ Len(r.heap) <= MaxObjs
              /\ heap' = r.heap
              /\ last' = Call("SetAt", recv, path, value, EmptyKeys, r.err, 0)
              /\ aliased' = (aliased \/ PassesAttached(heap, value, recv))
    /\ pre' = heap /\ nops' = nops + 1
    /\ UNCHANGED <<held, callers, otherVars>>

DoDeleteAt ==
    /\ nops < MaxOps
    /\ \E recv \in held : \E path \in Paths :
          LET r == DeleteAt(heap, recv, path)
              same == last.recv = recv /\ last.path = path
              run == IF same /\ last.op = "SetAt" /\ last.err = ErrNil THEN 1
                     ELSE IF same /\ last.op = "DeleteAt" /\ last.delRun = 1
                     THEN 2 ELSE 0
          IN  /\ heap' = r.heap
              /\ last' = Call("DeleteAt", recv, path, Nil, EmptyKeys, r.err, run)
    /\ pre' = heap /\ nops' = nops + 1
    /\ UNCHANGED <<held, aliased, callers, otherVars>>

DoSetFrom ==
    /\ nops < MaxOps
    /\ \E recv \in held : \E values \in Mappings(heap, recv) :
       \E order \in Orders(DOMAIN values) :
          LET r == SetFrom(heap, recv, order, values)
          IN  /\ heap' = r.heap
              /\ last' = Call("SetFrom", recv, order, Nil, values, r.err, 0)
              /\ aliased' = (aliased
                    \/ \E k \in DOMAIN values :
                          PassesAttached(heap, values[k], recv)
                    \/ PassesTwice(values))
    /\ pre' = heap /\ nops' = nops + 1
    /\ UNCHANGED <<held, callers, otherVars>>

DoSetFromCtyValues ==
    /\ nops < MaxOps
    /\ \E recv \in held : \E values \in TreeRawMaps :
       \E o \in Origins :
          LET h == SetFromCtyValues(heap, recv, values, o)
          IN  /\ Len(h) <= MaxObjs
              /\ heap' = h
              /\ last' = Call("SetFromCtyValues", recv, << >>, Nil, values,
                               ErrNil, 0)
    /\ pre' = heap /\ nops' = nops + 1
    /\ UNCHANGED <<held, aliased, callers, otherVars>>

Next ==
    \/ DoNewObject
    \/ DoGetKeyPath
    \/ DoSet
    \/ DoSetAt
    \/ DoDeleteAt
    \/ DoSetFrom
    \/ DoSetFromCtyValues

Spec == Init /\ [][Next]_vars
SpecOwned == InitOwned /\ [][Next]_vars

(* --------------------------- tree properties --------------------------- *)
\* Following path from obj, a key before the last one maps to a scalar.
RECURSIVE ScalarOnPath(_, _, _)
ScalarOnPath(h, obj, path) ==
    /\ Len(path) > 1
    /\ Head(path) \in DOMAIN h[obj].Keys
    /\ LET v == h[obj].Keys[Head(path)]
       IN  IF IsObject(v) THEN ScalarOnPath(h, v.ref, Tail(path)) ELSE TRUE

\* Following path from obj, a key before the last one is absent.
RECURSIVE AbsentOnPath(_, _, _)
AbsentOnPath(h, obj, path) ==
    /\ Len(path) > 1
    /\ \/ Head(path) \notin DOMAIN h[obj].Keys
       \/ LET v == h[obj].Keys[Head(path)]
          IN  IsObject(v) /\ AbsentOnPath(h, v.ref, Tail(path))

Acyclic(h) ==
    \A id \in 1..Len(h) : id \notin Descendants(h, Children(h, id), Len(h))
ExclusivelyOwned(h) == \A id \in 1..Len(h) : Cardinality(Parents(h, id)) <= 1
TreeShaped(h) == Acyclic(h) /\ ExclusivelyOwned(h)

\* C1: SetAt(P, v) on an empty Object, P non-empty, returns no error and
\* GetKeyPath(P) on the result returns (v, true).
C1_SetAtThenGet ==
    (last.op = "SetAt" /\ DOMAIN pre[last.recv].Keys = {}) =>
        /\ last.err = ErrNil
        /\ GetKeyPath(heap, last.recv, last.path) = [v |-> last.value, ok |-> TRUE]
C1_Witness ==
    /\ last.op = "SetAt" /\ DOMAIN pre[last.recv].Keys = {}
    /\ Len(last.path) >= 3 /\ last.err = ErrNil
    /\ GetKeyPath(heap, last.recv, last.path).ok

\* C2: SetAt(P, v) when a non-terminal key of P maps to a Scalar returns
\* ErrCannotExtendObject and leaves every object as it was: no key added,
\* removed or overwritten and no Object allocated.
C2_SetAtThroughScalar ==
    (last.op = "SetAt" /\ ScalarOnPath(pre, last.recv, last.path)) =>
        /\ last.err = ErrCannotExtendObject
        /\ heap = pre
C2_Witness ==
    /\ last.op = "SetAt" /\ ScalarOnPath(pre, last.recv, last.path)
    /\ IsObject(pre[last.recv].Keys[last.path[1]])
    /\ last.err = ErrCannotExtendObject

C4_DeleteAtBlocked ==
    last.op = "DeleteAt" =>
        /\ AbsentOnPath(pre, last.recv, last.path) =>
              (last.err = ErrNil /\ heap = pre)
        /\ ScalarOnPath(pre, last.recv, last.path) =>
              (last.err = ErrCannotExtendObject /\ heap = pre)
C4_Witness ==
    /\ last.op = "DeleteAt" /\ ScalarOnPath(pre, last.recv, last.path)
    /\ last.err = ErrCannotExtendObject /\ DOMAIN heap[last.recv].Keys = Keys
C4_WitnessAbsent ==
    /\ last.op = "DeleteAt" /\ AbsentOnPath(pre, last.recv, last.path)
    /\ last.err = ErrNil /\ DOMAIN heap[last.recv].Keys # {}

\* C6 as claimed: after any sequence of calls no Object is reachable from
\* itself and no Object is the child of two keys.
C6_AlwaysTree == TreeShaped(heap)

\* C6 as amended: as long as no call passed in an Object that was already
\* the child of a key, the receiver itself, or the value of two keys of one
\* SetFrom map, no Object is reachable from itself and no Object is the
\* child of two keys.
C6_TreeUnlessAliased == ~aliased => TreeShaped(heap)
C6_Witness ==
    /\ ~aliased /\ last.op = "SetAt" /\ IsObject(last.value)
    /\ Len(last.path) >= 2 /\ Len(heap) > Len(pre)
    /\ Cardinality(Parents(heap, last.value.ref)) = 1

\* C7: SetFrom panics whenever a key of the map already exists in the
\* Object and never changes the value of a key that existed; when no key of
\* the map exists it succeeds and the Object holds the old keys and the
\* map's keys, each map key with the map's value.
C7_SetFrom ==
    last.op = "SetFrom" =>
        LET old == pre[last.recv].Keys
            new == heap[last.recv].Keys
            collide == (DOMAIN last.values) \cap (DOMAIN old) # {}
        IN  /\ collide <=> last.err = ErrPanic
            /\ \A k \in DOMAIN old : k \in DOMAIN new /\ new[k] = old[k]
            /\ ~collide =>
                  /\ last.err = ErrNil
                  /\ DOMAIN new = (DOMAIN old) \cup (DOMAIN last.values)
                  /\ \A k \in DOMAIN last.values : new[k] = last.values[k]
C7_Witness ==
    /\ last.op = "SetFrom" /\ last.err = ErrPanic
    /\ heap # pre /\ DOMAIN last.values = Keys
C7_WitnessDisjoint ==
    /\ last.op = "SetFrom" /\ last.err = ErrNil
    /\ DOMAIN pre[last.recv].Keys # {} /\ DOMAIN last.values # {}

(* ----------------------- round trip of raw values ---------------------- *)
InitRT ==
    /\ InitDiag0
    /\ heap = << >> /\ pre = << >> /\ nops = 0 /\ aliased = FALSE
    /\ callers = "owning" /\ held = {}
    /\ last = Call("none", Root, << >>, Nil, EmptyKeys, ErrNil, 0)
    /\ rtIn \in RawObjectsOver(Keys, Strings, MaxDepth)
    /\ rtOrigin \in Origins
    /\ rtVal = Nil /\ rtOut = EmptyKeys /\ rtPc = "start"

DoNewValue ==
    /\ rtPc = "start"
    /\ LET r == NewValue(heap, rtIn, rtOrigin)
       IN  heap' = r.heap /\ rtVal' = r.value
    /\ rtPc' = "built"
    /\ UNCHANGED <<pre, last, nops, aliased, callers, held, rtIn, rtOrigin, rtOut, diagVars>>

DoAsValueMap ==
    /\ rtPc = "built"
    /\ rtOut' = AsValueMap(heap, rtVal.ref)
    /\ rtPc' = "done"
    /\ UNCHANGED <<treeVars, rtIn, rtOrigin, rtVal, diagVars>>

NextRT == DoNewValue \/ DoAsValueMap
SpecRT == InitRT /\ [][NextRT]_vars

RECURSIVE NoMarks(_)
NoMarks(attrs) ==
    \A k \in DOMAIN attrs :
        /\ attrs[k].marks = {}
        /\ IsObjectType(attrs[k]) => NoMarks(attrs[k].attrs)

\* C5: AsValueMap of NewValue(x, o), x an object-typed raw value, is the map
\* of x's attributes, nested objects included, and no leaf of it carries a
\* mark.
C5_RoundTrip ==
    rtPc = "done" => (rtOut = CtyAsValueMap(rtIn) /\ NoMarks(rtOut))
C5_Witness ==
    /\ rtPc = "done" /\ rtOut = CtyAsValueMap(rtIn)
    /\ \E k \in DOMAIN rtOut :
          /\ IsObjectType(rtOut[k]) /\ DOMAIN rtOut[k].attrs # {}
          /\ heap[heap[rtVal.ref].Keys[k].ref].origin = rtOrigin
    /\ \E k \in DOMAIN rtOut :
          /\ ~IsObjectType(rtOut[k])
          /\ heap[rtVal.ref].Keys[k].val.marks = {rtOrigin}

(* ------------------- error list and parsing pass ----------------------- *)
SeqsUpTo(S, n) == UNION {[1..k -> S] : k \in 0..n}
Atoms == {E("one", ""), E("two", "")}
DiagEntries == {Diagnostic("error 1", "file1.tm"), Diagnostic("error 2", "file2.tm")}
AppendArgs(l) ==
    {NilErr} \cup Atoms \cup {AsList(l)}
        \cup {AsList(q) : q \in SeqsUpTo(Atoms, MaxArgLen)}
        \cup {Diagnostics(q) : q \in SeqsUpTo(DiagEntries, MaxArgLen)}
LArgs == SeqsUpTo({NilErr} \cup Atoms, MaxArgLen)
BlockKinds ==
    {Block("resource", 1, "none")} \cup
    {Block("module", n, src) : n \in 0..2,
        src \in {"none", "string", "notstring", "evalerr"}}
PassInputs ==
    {[statOk |-> FALSE, syntaxOk |-> TRUE, blocks |-> << >>],
     [statOk |-> TRUE, syntaxOk |-> FALSE, blocks |-> << >>]} \cup
    {[statOk |-> TRUE, syntaxOk |-> TRUE, blocks |-> b] :
        b \in SeqsUpTo(BlockKinds, MaxBlocks)}

\* What one argument of Append should add to the list.
Contribution(x) ==
    IF x.t = "nil" THEN << >>
    ELSE IF x.t = "error" THEN <<x>>
    ELSE IF x.t = "list" THEN x.elems
    ELSE [i \in 1..Len(x.elems) |-> E(x.elems[i].msg, x.elems[i].rng)]
RECURSIVE Contributions(_)
Contributions(args) ==
    IF args = << >> THEN << >>
    ELSE Contribution(Head(args)) \o Contributions(Tail(args))
HandsError(x) == x.t = "error" \/ (x.t \in {"list", "diags"} /\ x.elems # << >>)

InitDiag ==
    /\ InitRT0
    /\ heap = << >> /\ pre = << >> /\ nops = 0 /\ aliased = FALSE
    /\ callers = "owning" /\ held = {}
    /\ last = Call("none", Root, << >>, Nil, EmptyKeys, ErrNil, 0)
    /\ errs = << >> /\ wantErrs = << >> /\ sawError = FALSE
    /\ lcall = ListCall("none", << >>, << >>, NoInput, NoOutput)

\* A list is constructed once, by a caller's L(...) or inside a pass.
DoL ==
    /\ lcall.op = "none"
    /\ \E args \in LArgs :
          /\ errs' = L(args)
          /\ wantErrs' = Contributions(args)
          /\ sawError' = (\E i \in DOMAIN args : HandsError(args[i]))
          /\ lcall' = ListCall("L", args, errs, NoInput, NoOutput)
    /\ UNCHANGED <<treeVars, rtVars>>

DoAppend ==
    /\ lcall.op \in {"L", "Append"}
    /\ \E x \in AppendArgs(errs) :
          /\ Len(ListAppend(errs, x)) <= MaxErrs
          /\ errs' = ListAppend(errs, x)
          /\ wantErrs' = wantErrs \o Contribution(x)
          /\ sawError' = (sawError \/ HandsError(x))
          /\ lcall' = ListCall("Append", <<x>>, errs, NoInput, NoOutput)
    /\ UNCHANGED <<treeVars, rtVars>>

\* The pass builds its own list with errors.L(), appends to it and ends by
\* collapsing it with AsError().
DoParseModuleBlocks ==
    /\ lcall.op = "none"
    /\ \E in \in PassInputs :
          LET r == ParseModuleBlocks(in.statOk, in.syntaxOk, in.blocks)
          IN  /\ errs' = r.errs
              /\ wantErrs' = r.errs
              /\ sawError' = (r.errs # << >>)
              /\ lcall' = ListCall("ParseModuleBlocks", << >>, errs, in, r)
    /\ UNCHANGED <<treeVars, rtVars>>

NextDiag == DoL \/ DoAppend \/ DoParseModuleBlocks
SpecDiag == InitDiag /\ [][NextDiag]_vars

\* C8: Errors() is the concatenation, in call order, of what each argument
\* contributes: an atomic error itself, a list its elements one by one, a
\* batch of n diagnostics n atomic errors in the batch's order.
C8_Flattened == Errors(errs) = wantErrs
C8_Witness ==
    /\ lcall.op = "Append" /\ lcall.pre = <<E("one", ""), E("two", "")>>
    /\ lcall.args = <<AsList(<<E("two", ""), E("one", "")>>)>>
    /\ Errors(errs) = <<E("one", ""), E("two", ""), E("two", ""), E("one", "")>>
C8_WitnessBatch ==
    /\ lcall.op = "Append" /\ lcall.args[1].t = "diags"
    /\ Len(lcall.args[1].elems) = 2
    /\ Len(Errors(errs)) = Len(lcall.pre) + 2
    /\ Errors(errs)[Len(errs)] = E("error 1", "file1.tm")

\* C9: no element of Errors() is nil: L drops nil arguments and Append(nil)
\* leaves Errors() as it was.
C9_NoNil ==
    /\ \A i \in DOMAIN Errors(errs) : Errors(errs)[i] # NilErr
    /\ (lcall.op = "Append" /\ lcall.args = <<NilErr>>) => Errors(errs) = lcall.pre
    /\ lcall.op = "L" =>
         Len(Errors(errs)) =
            Cardinality({i \in DOMAIN lcall.args : lcall.args[i] # NilErr})
C9_Witness ==
    /\ lcall.op = "Append" /\ lcall.args = <<NilErr>>
    /\ Len(lcall.pre) >= 2 /\ Errors(errs) = lcall.pre
C9_WitnessL ==
    /\ lcall.op = "L" /\ lcall.args = <<NilErr, NilErr>> /\ Errors(errs) = << >>

\* C10: AsError() is nil exactly when Errors() is empty, and then Error()
\* and Detailed() are the empty string; once a call has handed the list an
\* atomic error AsError() is not nil; and ParseModuleBlocks, having got past
\* stat and parsing, returns an error exactly when its list is not empty.
C10_AsErrorIffNonEmpty ==
    /\ AsError(errs) = NilErr <=> Errors(errs) = << >>
    /\ Errors(errs) = << >> => (ListError(errs) = << >> /\ Detailed(errs) = << >>)
    /\ sawError => AsError(errs) # NilErr
    /\ (lcall.op = "ParseModuleBlocks" /\ lcall.input.statOk
            /\ lcall.input.syntaxOk) =>
          /\ lcall.out.err # NilErr <=> lcall.out.errs # << >>
          /\ lcall.out.err # NilErr =>
                (lcall.out.modules = << >> /\ lcall.out.err = AsList(lcall.out.errs))
C10_Witness ==
    /\ lcall.op = "ParseModuleBlocks" /\ Len(lcall.input.blocks) = 2
    /\ lcall.input.blocks[1].source = "string"
    /\ lcall.input.blocks[1].labels = 1
    /\ lcall.input.blocks[2].source = "evalerr"
    /\ Len(lcall.out.errs) = 2 /\ lcall.out.err # NilErr
C10_WitnessOk ==
    /\ lcall.op = "ParseModuleBlocks" /\ Len(lcall.input.blocks) = 2
    /\ lcall.out.err = NilErr /\ Len(lcall.out.modules) = 2

====
